---- MODULE Spec2Model ----
(***************************************************************************)
(* Model of the capture-session coordinator, class Splutter of             *)
(* src/src/splutter.ts.  The coordinator's methods are translated          *)
(* statement by statement.  Its collaborators (Device, Audio,              *)
(* BufferManager, Encoder, Uploader) live in files that are not part of    *)
(* src/; they are modelled from the interface contracts of spec.md (§4,    *)
(* §6) and every call the coordinator issues on them is recorded, in       *)
(* order, in the variable calls.                                           *)
(***************************************************************************)
EXTENDS Integers, Sequences, FiniteSets

\* Largest channel count a stream negotiation can report.
MaxChannels == 3

\* Cap on the number of Encoder constructions that are told apart.
MaxEncoderId == 2

\* Largest number of startCapture calls suspended at an await at the same time.
MaxPending == 2

Channels == 0 .. (MaxChannels - 1)

DeviceErrors == {"noError", "stopped", "notGranted", "otherError"}

VARIABLES
    encoderId,        \* this.encoder: 0 = undefined, n = the n-th Encoder constructed
    uploaderExists,   \* this.uploader holds an Uploader
    initCalled,       \* history: init has run at least once (directly or inside startCapture)
    encoderStopped,   \* stopEncoder() has been received by the Encoder
    encoderChannels,  \* channel count the Encoder was last configured with
    uploaderStopped,  \* stopUploader() has been received by the Uploader
    uploaderChannels, \* channel count the Uploader was last configured with
    buffers,          \* BufferManager: channel -> "none" | "stopped" | "ready"
    recording,        \* Audio: channels whose recording-active flag is set
    everRecorded,     \* history: some channel has been started at least once
    audioRunning,     \* Audio: the engine is running (resume / stopAll)
    deviceState,      \* Device.hasError()
    threw,            \* an exception has left a public method of the coordinator
    pending,          \* the startCapture calls in flight: how many are suspended at each await
    interrupted,      \* history: stopCapture ran while startCapture calls were suspended, and only such calls have resumed since
    op,               \* the operation (or step of startCapture) performed last
    calls             \* collaborator calls issued by that operation, in order

vars == << encoderId, uploaderExists, initCalled, interrupted, encoderStopped, encoderChannels, uploaderStopped,
           uploaderChannels, buffers, recording, everRecorded, audioRunning,
           deviceState, threw, pending, op, calls >>

\* The program state as one record, with an empty call log; the operators
\* below map such a record to the record after a method has run.
State ==
    [ encoderId |-> encoderId, uploaderExists |-> uploaderExists,
      initCalled |-> initCalled, encoderStopped |-> encoderStopped,
      encoderChannels |-> encoderChannels, uploaderStopped |-> uploaderStopped,
      uploaderChannels |-> uploaderChannels, buffers |-> buffers,
      recording |-> recording, everRecorded |-> everRecorded,
      audioRunning |-> audioRunning, deviceState |-> deviceState,
      threw |-> threw, calls |-> << >> ]

Apply(s) ==
    /\ encoderId' = s.encoderId
    /\ uploaderExists' = s.uploaderExists
    /\ initCalled' = s.initCalled
    /\ encoderStopped' = s.encoderStopped
    /\ encoderChannels' = s.encoderChannels
    /\ uploaderStopped' = s.uploaderStopped
    /\ uploaderChannels' = s.uploaderChannels
    /\ buffers' = s.buffers
    /\ recording' = s.recording
    /\ everRecorded' = s.everRecorded
    /\ audioRunning' = s.audioRunning
    /\ deviceState' = s.deviceState
    /\ threw' = s.threw
    /\ calls' = s.calls

Call(s, c) == [s EXCEPT !.calls = Append(@, c)]

----------------------------------------------------------------------------
\* Collaborators

\* Audio.resume()
audio_resume(s) == Call([s EXCEPT !.audioRunning = TRUE], <<"audio.resume">>)

\* Audio.stopAll(): stops the engine's activity; the per-channel
\* recording-active flags are cleared only by stopRecordChannel.
audio_stopAll(s) == Call([s EXCEPT !.audioRunning = FALSE], <<"audio.stopAll">>)

\* Audio.stopRecordChannel(i)
audio_stopRecordChannel(s, i) ==
    Call([s EXCEPT !.recording = @ \ {i}], <<"audio.stopRecordChannel", i>>)

\* Audio.recordingChannelCount()
recordingChannelCount(s) == Cardinality(s.recording)

\* BufferManager.bufferExists(i)
bufferExists(s, i) == s.buffers[i] # "none"

\* BufferManager.setBuffer(generator, i): registers a generator that has not been initialised
setBuffer(s, i) == Call([s EXCEPT !.buffers[i] = "stopped"], <<"bufferManager.setBuffer", i>>)

\* BufferManager.stopBuffer(i): no effect on an index without a buffer
stopBuffer(s, i) ==
    Call([s EXCEPT !.buffers[i] = IF @ = "none" THEN "none" ELSE "stopped"],
         <<"bufferManager.stopBuffer", i>>)

\* BufferManager.stopAll()
bufferManager_stopAll(s) ==
    Call([s EXCEPT !.buffers = [i \in Channels |->
                                  IF s.buffers[i] = "none" THEN "none" ELSE "stopped"]],
         <<"bufferManager.stopAll">>)

\* Encoder.setChannels(n), only reached through this.encoder?.
encoder_setChannels(s, n) ==
    IF s.encoderId = 0 THEN s
    ELSE Call([s EXCEPT !.encoderChannels = n], <<"encoder.setChannels", n>>)

\* Uploader.setChannels(n)
uploader_setChannels(s, n) ==
    Call([s EXCEPT !.uploaderChannels = n], <<"uploader.setChannels", n>>)

\* this.encoder?.stopEncoder()
stopEncoder(s) ==
    IF s.encoderId = 0 THEN s
    ELSE Call([s EXCEPT !.encoderStopped = TRUE], <<"encoder.stopEncoder">>)

\* this.uploader.stopUploader()
stopUploader(s) == Call([s EXCEPT !.uploaderStopped = TRUE], <<"uploader.stopUploader">>)

\* Device.stop()
device_stop(s) == Call([s EXCEPT !.deviceState = "stopped"], <<"device.stop">>)

\* new Encoder( uploader, context, sampleRate )
newEncoder(s) ==
    Call([s EXCEPT !.encoderId = IF @ < MaxEncoderId THEN @ + 1 ELSE @,
                   !.encoderStopped = FALSE,
                   !.encoderChannels = 0],
         <<"new Encoder">>)

----------------------------------------------------------------------------
\* The coordinator's methods

\* The loop of createBuffers without the bufferExists test
RECURSIVE createBuffersLoopNoExistsTest(_, _, _)
createBuffersLoopNoExistsTest(s, i, channels) ==
    IF i >= channels THEN s
    ELSE createBuffersLoopNoExistsTest(
            IF s.encoderId # 0 THEN setBuffer(s, i) ELSE s,
            i + 1, channels)

\* Splutter.createBuffers: the loop over i = from .. channels-1
RECURSIVE createBuffersLoop(_, _, _)
createBuffersLoop(s, i, channels) ==
    IF i >= channels THEN s
    ELSE createBuffersLoop(
            IF ~bufferExists(s, i) /\ s.encoderId # 0 THEN setBuffer(s, i) ELSE s,
            i + 1, channels)

\* createBuffers with the loop bound off by one (i < channels - 1)
createBuffersShortLoop(s, channels) ==
    uploader_setChannels(encoder_setChannels(createBuffersLoop(s, 0, channels - 1), channels),
                         channels)

\* createBuffers creating a buffer for every index the model knows
createBuffersAllIndexes(s, channels) ==
    uploader_setChannels(encoder_setChannels(createBuffersLoop(s, 0, MaxChannels), channels),
                         channels)

\* createBuffers reconfiguring the Encoder and the Uploader before the loop
createBuffersConfigFirst(s, channels) ==
    createBuffersLoop(uploader_setChannels(encoder_setChannels(s, channels), channels),
                      0, channels)

\* Splutter.createBuffers
createBuffers(s, channels) ==
    uploader_setChannels(encoder_setChannels(createBuffersLoop(s, 0, channels), channels),
                         channels)

\* init without the test of this.encoder
initOpAlwaysCreates(s) == newEncoder(audio_resume([s EXCEPT !.initCalled = TRUE]))

\* init that resumes the audio and leaves the Encoder to a later step
initOpNoEncoder(s) == audio_resume([s EXCEPT !.initCalled = TRUE])

\* Splutter.init
initOp(s) ==
    LET a == audio_resume([s EXCEPT !.initCalled = TRUE])
    IN  IF a.encoderId = 0 THEN newEncoder(a) ELSE a

\* stopCapture that also stops the Encoder and the Uploader
stopCaptureStopsHandles(s) ==
    stopUploader(stopEncoder(device_stop(bufferManager_stopAll(audio_stopAll(s)))))

\* Splutter.stopCapture
stopCaptureOp(s) == device_stop(bufferManager_stopAll(audio_stopAll(s)))

\* stopRecordInputChannel without the test of the active-recording count
stopRecordInputChannelAlwaysStops(s, input) ==
    stopUploader(stopEncoder(audio_stopRecordChannel(stopBuffer(s, input), input)))

\* stopRecordInputChannel testing the active-recording count before the flag is cleared
stopRecordInputChannelEarlyTest(s, input) ==
    LET a == audio_stopRecordChannel(stopBuffer(s, input), input)
    IN  IF recordingChannelCount(s) = 0 THEN stopUploader(stopEncoder(a)) ELSE a

\* stopRecordInputChannel without the stop of the Encoder and the Uploader
stopRecordInputChannelNeverStops(s, input) ==
    audio_stopRecordChannel(stopBuffer(s, input), input)

\* Splutter.stopRecordInputChannel
stopRecordInputChannelOp(s, input) ==
    LET a == audio_stopRecordChannel(stopBuffer(s, input), input)
    IN  IF recordingChannelCount(a) = 0 THEN stopUploader(stopEncoder(a)) ELSE a

\* catch block that only reports the error
recordInputChannelCatchWarnOnly(s, input, e) == Call(s, <<"context.onWarning", e>>)

\* catch block that rolls back by stopping every buffer
recordInputChannelCatchStopAll(s, input, e) ==
    Call(stopRecordInputChannelOp(bufferManager_stopAll(s), input), <<"context.onWarning", e>>)

\* Splutter.recordInputChannel: the catch block
recordInputChannelCatch(s, input, e) ==
    Call(stopRecordInputChannelOp(s, input), <<"context.onWarning", e>>)

\* recordInputChannel that restarts the Encoder and the Uploader on success
recordInputChannelRestarts(s, input, initFails, recordFails) ==
    LET a == Call(s, <<"bufferManager.initBuffer", input>>)
    IN  IF ~bufferExists(s, input) \/ initFails
        THEN recordInputChannelCatch(a, input, "initBuffer error")
        ELSE LET b == Call([a EXCEPT !.buffers[input] = "ready"],
                           <<"audio.recordChannel", input>>)
             IN  IF recordFails
                 THEN recordInputChannelCatch(b, input, "recordChannel error")
                 ELSE [b EXCEPT !.recording = @ \cup {input}, !.everRecorded = TRUE,
                                !.encoderStopped = FALSE, !.uploaderStopped = FALSE]

\* Splutter.recordInputChannel.  initFails / recordFails: the collaborator
\* call throws.  initBuffer always throws for an index without a buffer.
recordInputChannelOp(s, input, initFails, recordFails) ==
    LET a == Call(s, <<"bufferManager.initBuffer", input>>)
    IN  IF ~bufferExists(s, input) \/ initFails
        THEN recordInputChannelCatch(a, input, "initBuffer error")
        ELSE LET b == Call([a EXCEPT !.buffers[input] = "ready"],
                           <<"audio.recordChannel", input>>)
             IN  IF recordFails
                 THEN recordInputChannelCatch(b, input, "recordChannel error")
                 ELSE [b EXCEPT !.recording = @ \cup {input}, !.everRecorded = TRUE]

\* onFailure without the test of the active-recording count
onFailureAlwaysStops(s) ==
    stopUploader(stopEncoder(
        bufferManager_stopAll(audio_stopAll(Call(s, <<"context.onFailure">>)))))

\* onFailure tearing down through stopCapture, device included
onFailureStopsDevice(s) ==
    LET a == stopCaptureOp(Call(s, <<"context.onFailure">>))
    IN  IF recordingChannelCount(a) = 0 THEN stopUploader(stopEncoder(a)) ELSE a

\* Splutter.onFailure
onFailureOp(s) ==
    LET a == bufferManager_stopAll(audio_stopAll(Call(s, <<"context.onFailure">>)))
    IN  IF recordingChannelCount(a) = 0 THEN stopUploader(stopEncoder(a)) ELSE a

\* onPermissionsRemoved notifying the owning context before the teardown
onPermissionsRemovedNotifiesFirst(s) ==
    stopCaptureOp(Call(s, <<"context.onDevicePermissionRemoved">>))

\* The onPermissionsRemoved callback handed to Device by the constructor
onPermissionsRemovedOp(s) == Call(stopCaptureOp(s), <<"context.onDevicePermissionRemoved">>)

\* startCapture whose noError case reloads the device too
startCaptureSyncReloadsAlways(s) ==
    LET a == initOp(s)
    IN  IF a.deviceState \in {"stopped", "notGranted", "noError"}
        THEN Call(Call(a, <<"device.tryReload">>), <<"device.requestDeviceAccess">>)
        ELSE Call(a, <<"context.onWarning", a.deviceState>>)

\* Splutter.startCapture up to its first await
startCaptureSync(s) ==
    LET a == initOp(s)
    IN  CASE a.deviceState \in {"stopped", "notGranted"} ->
               Call(Call(a, <<"device.tryReload">>), <<"device.requestDeviceAccess">>)
          [] a.deviceState = "noError" ->
               Call(a, <<"device.requestDeviceAccess">>)
          [] OTHER ->
               Call(a, <<"context.onWarning", a.deviceState>>)

\* Splutter.startCapture from the first await to the second
startCaptureStream(s, stream) ==
    IF ~stream THEN Call(s, <<"context.onWarning", "No stream available">>)
    ELSE Call(s, <<"audio.handleInputStream">>)

\* startCapture without the early return for a channel count of 0
startCaptureChannelsNoReturn(s, channels) ==
    IF channels = 0
    THEN createBuffers(Call(s, <<"context.onWarning", "No channels available">>), channels)
    ELSE createBuffers(s, channels)

\* Splutter.startCapture after the second await
startCaptureChannels(s, channels) ==
    IF channels = 0 THEN Call(s, <<"context.onWarning", "No channels available">>)
    ELSE createBuffers(s, channels)

----------------------------------------------------------------------------
\* State machine

Op(name, input, ret) == [name |-> name, input |-> input, ret |-> ret]

\* The awaits of startCapture
Awaits == {"requestDeviceAccess", "handleInputStream"}

\* No startCapture call is in flight
NoPending == [a \in Awaits |-> 0]

\* Number of startCapture calls in flight
InFlight == pending["requestDeviceAccess"] + pending["handleInputStream"]

\* An operation other than startCapture and stopCapture: the calls in flight
\* stay suspended where they are.
Other ==
    /\ pending' = pending
    /\ interrupted' = FALSE

\* stopCapture runs: the startCapture calls suspended at an await stay
\* suspended where they are, nothing cancels them.
Interrupt ==
    /\ pending' = pending
    /\ interrupted' = (InFlight > 0)

\* State after the constructor
Init ==
    /\ encoderId = 0
    /\ uploaderExists = TRUE
    /\ initCalled = FALSE
    /\ interrupted = FALSE
    /\ encoderStopped = FALSE
    /\ encoderChannels = 0
    /\ uploaderStopped = FALSE
    /\ uploaderChannels = 0
    /\ buffers = [i \in Channels |-> "none"]
    /\ recording = {}
    /\ everRecorded = FALSE
    /\ audioRunning = FALSE
    /\ deviceState \in DeviceErrors
    /\ threw = FALSE
    /\ pending = NoPending
    /\ op = Op("constructor", -1, -1)
    /\ calls = << >>

init ==
    /\ Apply(initOp(State))
    /\ op' = Op("init", -1, -1)
    /\ Other

\* startCapture is called, whether or not earlier calls are still in flight;
\* it runs to its first await or to the early return
startCapture ==
    /\ InFlight < MaxPending
    /\ LET r == startCaptureSync(State)
           aborted == r.deviceState \notin {"stopped", "notGranted", "noError"}
       IN  /\ Apply(r)
           /\ interrupted' = FALSE
           /\ pending' = IF aborted THEN pending
                          ELSE [pending EXCEPT !["requestDeviceAccess"] = @ + 1]
           /\ op' = Op("startCapture", -1, IF aborted THEN 0 ELSE -1)

\* requestDeviceAccess resolves for one of the calls in flight, with a stream
\* or without one
startCaptureResumeStream ==
    \E stream \in BOOLEAN :
        /\ pending["requestDeviceAccess"] > 0
        /\ LET r == startCaptureStream(State, stream)
           IN  /\ Apply(r)
               /\ interrupted' = interrupted
               /\ pending' = IF stream
                              THEN [pending EXCEPT !["requestDeviceAccess"] = @ - 1,
                                                   !["handleInputStream"] = @ + 1]
                              ELSE [pending EXCEPT !["requestDeviceAccess"] = @ - 1]
               /\ op' = Op("startCapture.stream", -1, IF stream THEN -1 ELSE 0)

\* handleInputStream resolves for one of the calls in flight, with the
\* channel count
startCaptureResumeChannels ==
    \E channels \in 0 .. MaxChannels :
        /\ pending["handleInputStream"] > 0
        /\ LET r == startCaptureChannels(State, channels)
           IN  /\ Apply(r)
               /\ interrupted' = interrupted
               /\ pending' = [pending EXCEPT !["handleInputStream"] = @ - 1]
               /\ op' = Op("startCapture.channels", -1, channels)

\* stopCapture that cancels the startCapture calls in flight
stopCaptureCancels ==
    /\ Apply(stopCaptureOp(State))
    /\ op' = Op("stopCapture", -1, -1)
    /\ pending' = NoPending
    /\ interrupted' = FALSE

stopCapture ==
    /\ Apply(stopCaptureOp(State))
    /\ op' = Op("stopCapture", -1, -1)
    /\ Interrupt

\* recordChannel is not reached when initBuffer throws, so its outcome is
\* drawn only when initBuffer returns
recordInputChannel ==
    \E input \in Channels, initFails \in BOOLEAN, recordFails \in BOOLEAN :
        /\ initFails => ~recordFails
        /\ Apply(recordInputChannelOp(State, input, initFails, recordFails))
        /\ op' = Op("recordInputChannel", input, -1)
        /\ Other

stopRecordInputChannel ==
    \E input \in Channels :
        /\ Apply(stopRecordInputChannelOp(State, input))
        /\ op' = Op("stopRecordInputChannel", input, -1)
        /\ Other

onFailure ==
    /\ Apply(onFailureOp(State))
    /\ op' = Op("onFailure", -1, -1)
    /\ Other

onPermissionsRemoved ==
    /\ Apply(onPermissionsRemovedOp(State))
    /\ op' = Op("onPermissionsRemoved", -1, -1)
    /\ Interrupt

\* The device changes state on its own (a reload completes, access is
\* granted or refused, the hardware fails)
deviceChange ==
    /\ \E e \in DeviceErrors \ {deviceState} : deviceState' = e
    /\ op' = Op("deviceChange", -1, -1)
    /\ calls' = << >>
    /\ UNCHANGED << encoderId, uploaderExists, initCalled, encoderStopped, encoderChannels, uploaderStopped,
                    uploaderChannels, buffers, recording, everRecorded,
                    audioRunning, threw >>
    /\ Other

Next ==
    \/ init
    \/ startCapture
    \/ startCaptureResumeStream
    \/ startCaptureResumeChannels
    \/ stopCapture
    \/ recordInputChannel
    \/ stopRecordInputChannel
    \/ onFailure
    \/ onPermissionsRemoved
    \/ deviceChange

Spec == Init /\ [][Next]_vars

----------------------------------------------------------------------------
\* Helpers for the properties

\* The call named name occurs in the log
HasCall(log, name) == \E k \in DOMAIN log : log[k][1] = name

\* How many times the call named name occurs in the log
CountCall(log, name) == Cardinality({k \in DOMAIN log : log[k][1] = name})

\* Position of the first call named name in the log (0 when there is none)
FirstCall(log, name) ==
    IF HasCall(log, name)
    THEN CHOOSE k \in DOMAIN log :
            /\ log[k][1] = name
            /\ \A j \in DOMAIN log : log[j][1] = name => k <= j
    ELSE 0

\* Indexes that have a buffer
Existing == {i \in Channels : buffers[i] # "none"}

\* The steps of a startCapture call
StartCaptureSteps == {"startCapture", "startCapture.stream", "startCapture.channels"}

\* The last step completed a startCapture call that returned a count >= 1
StartCaptureReturned == op.name = "startCapture.channels" /\ op.ret >= 1

----------------------------------------------------------------------------
\* C1 as stated: when startCapture returns C >= 1, buffers exist for exactly
\* the indexes 0..C-1 and the Encoder and the Uploader have channel count C.
C1_Original ==
    StartCaptureReturned =>
        /\ Existing = 0 .. (op.ret - 1)
        /\ encoderChannels = op.ret
        /\ uploaderChannels = op.ret

\* C1 amended: when startCapture returns C >= 1, buffers exist for every index
\* 0..C-1, the indexes with a buffer form a prefix 0..k-1 with k >= C (buffers
\* of an earlier, larger count are kept), an Encoder exists, and the Encoder
\* and the Uploader have channel count C.
C1_Amended ==
    StartCaptureReturned =>
        /\ \A i \in 0 .. (op.ret - 1) : buffers[i] # "none"
        /\ \E k \in op.ret .. MaxChannels : Existing = 0 .. (k - 1)
        /\ encoderId # 0
        /\ encoderChannels = op.ret
        /\ uploaderChannels = op.ret

\* C1 witness: a startCapture has returned 2 after an earlier one created the buffer of index 2
C1_Witness ==
    /\ StartCaptureReturned
    /\ op.ret = 2
    /\ buffers[2] # "none"
    /\ HasCall(calls, "uploader.setChannels")

\* C2: every step of a startCapture call that does not return a count >= 1
\* leaves the buffers and the Encoder/Uploader channel counts as they were; a
\* call that returns 0 has emitted a warning as its last call; the call aborts
\* in its synchronous part exactly when the device state is an error other than
\* noError, stopped and notGranted, and then requests no device access; it
\* aborts after requestDeviceAccess only without a stream and after
\* handleInputStream only with zero channels.
C2_AbortStep ==
    (op'.name \in StartCaptureSteps /\ op'.ret < 1) =>
        /\ buffers' = buffers
        /\ encoderChannels' = encoderChannels
        /\ uploaderChannels' = uploaderChannels
        /\ op'.ret = 0 =>
              /\ calls' # << >>
              /\ calls'[Len(calls')][1] = "context.onWarning"
              /\ CountCall(calls', "context.onWarning") = 1
        /\ op'.name = "startCapture" =>
              /\ (op'.ret = 0) <=> (deviceState \notin {"noError", "stopped", "notGranted"})
              /\ op'.ret = 0 =>
                    /\ ~HasCall(calls', "device.requestDeviceAccess")
                    /\ pending' = pending
        /\ (op'.name = "startCapture.stream" /\ op'.ret = 0) =>
              /\ calls' = << <<"context.onWarning", "No stream available">> >>
              /\ pending' = [pending EXCEPT !["requestDeviceAccess"] = @ - 1]
        /\ (op'.name = "startCapture.channels" /\ op'.ret = 0) =>
              /\ calls' = << <<"context.onWarning", "No channels available">> >>
              /\ pending' = [pending EXCEPT !["handleInputStream"] = @ - 1]

C2_Abort == [][C2_AbortStep]_vars

\* C2 witness: a startCapture returned 0 for zero channels while buffers and channel counts existed
C2_Witness ==
    /\ op.name = "startCapture.channels"
    /\ op.ret = 0
    /\ Existing # {}
    /\ encoderChannels >= 1
    /\ uploaderChannels >= 1

\* A state record without its call log
Fields(s) == [s EXCEPT !.calls = << >>]

\* Number of stop signals (stopEncoder, stopUploader) in the log
StopSignals(log) == CountCall(log, "encoder.stopEncoder") + CountCall(log, "uploader.stopUploader")

\* C3 as stated: the Encoder and the Uploader are stopped iff the
\* active-recording count is 0 and a channel had previously been started.
C3_Original ==
    /\ encoderStopped <=> (recording = {} /\ everRecorded)
    /\ uploaderStopped <=> (recording = {} /\ everRecorded)

C3_StopStep ==
    op'.name = "stopRecordInputChannel" =>
        /\ recording' = {} =>
              /\ CountCall(calls', "uploader.stopUploader") = 1
              /\ CountCall(calls', "encoder.stopEncoder") = (IF encoderId # 0 THEN 1 ELSE 0)
              /\ uploaderStopped'
              /\ encoderId # 0 => encoderStopped'
        /\ recording' # {} =>
              /\ StopSignals(calls') = 0
              /\ encoderStopped' = encoderStopped
              /\ uploaderStopped' = uploaderStopped
        /\ (Cardinality(recording) = 1 /\ recording' = {}) =>
              /\ CountCall(calls', "encoder.stopEncoder") = 1
              /\ CountCall(calls', "uploader.stopUploader") = 1

\* C3 amended: whenever the active-recording count is 0 and a channel had
\* previously been started, the Encoder and the Uploader are stopped (not the
\* converse); a stopRecordInputChannel call that leaves the count at 0, in
\* particular one that takes it from 1 to 0, issues exactly one stopUploader
\* call and, when an Encoder exists, exactly one stopEncoder call; a call that
\* leaves the count above 0 issues neither.
C3_Amended ==
    /\ []((recording = {} /\ everRecorded) => (encoderStopped /\ uploaderStopped))
    /\ [][C3_StopStep]_vars

\* C3 witness: stopRecordInputChannel has stopped the last recording channel
\* while an earlier recordInputChannel had succeeded
C3_Witness ==
    /\ op.name = "stopRecordInputChannel"
    /\ everRecorded
    /\ recording = {}
    /\ calls[Len(calls)] = <<"uploader.stopUploader">>
    /\ encoderStopped
    /\ uploaderStopped

\* C4 as stated: in the state left by stopRecordInputChannel(i), a second
\* stopRecordInputChannel(i) leaves the state as it is and sends no stopEncoder
\* and no stopUploader signal.
C4_Original ==
    op.name = "stopRecordInputChannel" =>
        LET r == stopRecordInputChannelOp(State, op.input)
        IN  /\ Fields(r) = State
            /\ StopSignals(r.calls) = 0

\* C4 amended: in the state left by stopRecordInputChannel(i), a second
\* stopRecordInputChannel(i) leaves the state as it is and issues the same
\* collaborator calls as the first; it sends stopUploader (and stopEncoder when
\* an Encoder exists) again exactly when the active-recording count is 0.
C4_Amended ==
    op.name = "stopRecordInputChannel" =>
        LET r == stopRecordInputChannelOp(State, op.input)
        IN  /\ Fields(r) = State
            /\ r.calls = calls
            /\ HasCall(r.calls, "uploader.stopUploader") <=> (recording = {})
            /\ HasCall(r.calls, "encoder.stopEncoder") <=> (recording = {} /\ encoderId # 0)

\* C4 witness: stopRecordInputChannel(i) has just stopped an initialised
\* buffer's channel and sent the stop signals; the second call starts here
C4_Witness ==
    /\ op.name = "stopRecordInputChannel"
    /\ everRecorded
    /\ buffers[op.input] = "stopped"
    /\ recording = {}
    /\ StopSignals(calls) = 2

\* The last operation was a recordInputChannel that went through the catch block
RecordFailed == op.name = "recordInputChannel" /\ HasCall(calls, "context.onWarning")

\* C5: when recordInputChannel(i) returns, either both steps succeeded (the
\* buffer is initialised, the channel is recording-active, no warning and no
\* rollback) or the call was rolled back: the buffer of i is not initialised,
\* the recording-active flag of i is false, the warning carrying the failure
\* is the last call and stopRecordInputChannel(i) ran before it; no exception
\* has left the coordinator; a call on an index without a buffer is rolled back.
C5_Rollback ==
    op.name = "recordInputChannel" =>
        LET i == op.input
        IN  /\ ~threw
            /\ (buffers[i] = "ready") <=> (i \in recording)
            /\ buffers[i] = "none" => RecordFailed
            /\ calls[1] = <<"bufferManager.initBuffer", i>>
            /\ RecordFailed =>
                  /\ buffers[i] # "ready"
                  /\ i \notin recording
                  /\ calls[Len(calls)][1] = "context.onWarning"
                  /\ CountCall(calls, "context.onWarning") = 1
                  /\ HasCall(calls, "bufferManager.stopBuffer")
                  /\ HasCall(calls, "audio.stopRecordChannel")
            /\ ~RecordFailed =>
                  /\ i \in recording
                  /\ calls = << <<"bufferManager.initBuffer", i>>, <<"audio.recordChannel", i>> >>

\* C5 witness: recordInputChannel failed in its second step, after the buffer had been initialised
C5_Witness ==
    /\ RecordFailed
    /\ HasCall(calls, "audio.recordChannel")
    /\ buffers[op.input] = "stopped"
    /\ op.input \notin recording

C6_FailStep ==
    (op'.name = "recordInputChannel" /\ HasCall(calls', "context.onWarning")) =>
        LET i == op'.input
        IN  /\ \A j \in Channels \ {i} :
                  /\ (j \in recording') <=> (j \in recording)
                  /\ buffers'[j] = buffers[j]
            /\ recording \ {i} # {} =>
                  /\ StopSignals(calls') = 0
                  /\ encoderStopped' = encoderStopped
                  /\ uploaderStopped' = uploaderStopped

\* C6: a recordInputChannel(i) that fails leaves the recording-active flag and
\* the buffer state of every other channel unchanged, and when another channel
\* is recording-active it sends no stop signal to the Encoder or the Uploader.
C6_Containment == [][C6_FailStep]_vars

\* C6 witness: recordInputChannel(i) failed while another channel was recording with an initialised buffer
C6_Witness ==
    /\ RecordFailed
    /\ \E j \in Channels \ {op.input} : j \in recording /\ buffers[j] = "ready"
    /\ ~encoderStopped
    /\ ~uploaderStopped

C7_Step ==
    /\ op'.name = "onFailure" =>
          /\ Len(calls') >= 3
          /\ calls'[1] = <<"context.onFailure">>
          /\ calls'[2] = <<"audio.stopAll">>
          /\ calls'[3] = <<"bufferManager.stopAll">>
          /\ ~audioRunning'
          /\ \A i \in Channels : buffers'[i] # "ready"
          /\ recording # {} =>
                /\ recording' # {}
                /\ StopSignals(calls') = 0
                /\ encoderStopped' = encoderStopped
                /\ uploaderStopped' = uploaderStopped
    /\ (op'.name = "stopRecordInputChannel" /\ recording # {} /\ recording' = {}) =>
          /\ CountCall(calls', "encoder.stopEncoder") = 1
          /\ CountCall(calls', "uploader.stopUploader") = 1
          /\ encoderStopped'
          /\ uploaderStopped'

\* C7: onFailure forwards the error to the owning context first, then stops
\* the audio and every buffer; while channels are recording-active (2 of 3 in
\* particular) it sends no stop signal and leaves the Encoder and the Uploader
\* as they are, because the active-recording count is not 0; the
\* stopRecordInputChannel that later takes the count to 0 stops both.
C7_OnFailure == [][C7_Step]_vars

\* C7 witness: onFailure has run with 2 of 3 channels recording and the Encoder and Uploader not stopped
C7_Witness ==
    /\ op.name = "onFailure"
    /\ Cardinality(Existing) = 3
    /\ Cardinality(recording) = 2
    /\ encoderId # 0
    /\ ~encoderStopped
    /\ ~uploaderStopped

C8_Step ==
    op'.name = "stopCapture" =>
        /\ calls' = << <<"audio.stopAll">>, <<"bufferManager.stopAll">>, <<"device.stop">> >>
        /\ ~audioRunning'
        /\ \A i \in Channels : buffers'[i] # "ready"
        /\ deviceState' = "stopped"
        /\ encoderId' = encoderId
        /\ encoderStopped' = encoderStopped
        /\ uploaderStopped' = uploaderStopped
        /\ encoderChannels' = encoderChannels
        /\ uploaderChannels' = uploaderChannels
        /\ Fields(stopCaptureOp(State))' = State'

\* C8: stopCapture, in any state, issues audio.stopAll, bufferManager.stopAll
\* and device.stop and nothing else; afterwards the audio is stopped, no
\* buffer is initialised and the device is stopped; the Encoder and the
\* Uploader are left as they were; a second stopCapture leaves the state as
\* the first left it.
C8_StopCapture == [][C8_Step]_vars

\* C8 witness: stopCapture has run while a channel was recording and the Encoder was not stopped
C8_Witness ==
    /\ op.name = "stopCapture"
    /\ recording # {}
    /\ encoderId # 0
    /\ ~encoderStopped
    /\ ~uploaderStopped
    /\ Existing # {}

C9_Step ==
    /\ op'.name = "startCapture" =>
          /\ deviceState \in {"notGranted", "stopped"} =>
                /\ CountCall(calls', "device.tryReload") = 1
                /\ CountCall(calls', "device.requestDeviceAccess") = 1
                /\ FirstCall(calls', "device.tryReload")
                      < FirstCall(calls', "device.requestDeviceAccess")
          /\ deviceState = "noError" =>
                /\ CountCall(calls', "device.tryReload") = 0
                /\ CountCall(calls', "device.requestDeviceAccess") = 1
    /\ op'.name \in {"startCapture.stream", "startCapture.channels"} =>
          /\ ~HasCall(calls', "device.tryReload")
          /\ ~HasCall(calls', "device.requestDeviceAccess")

\* C9: a startCapture call that finds the device notGranted or stopped issues
\* exactly one tryReload, before its one requestDeviceAccess; one that finds
\* noError issues no tryReload; the later steps of the call issue no further
\* tryReload, so a whole call holds at most one.
C9_Reload == [][C9_Step]_vars

\* C9 witness: a startCapture call has reloaded the device once and then
\* requested access, and is suspended at requestDeviceAccess
C9_Witness ==
    /\ op.name = "startCapture"
    /\ op.ret = -1
    /\ pending["requestDeviceAccess"] > 0
    /\ CountCall(calls, "device.tryReload") = 1
    /\ FirstCall(calls, "device.tryReload") < FirstCall(calls, "device.requestDeviceAccess")

C10_Step ==
    /\ encoderId # 0 => encoderId' = encoderId
    /\ encoderId' # encoderId => op'.name \in {"init", "startCapture"}
    /\ op'.name \in {"init", "startCapture"} =>
          /\ encoderId' = 1
          /\ HasCall(calls', "new Encoder") <=> (encoderId = 0)
    /\ op'.name \notin {"init", "startCapture"} => ~HasCall(calls', "new Encoder")
    /\ op'.name = "init" => Fields(initOp(State))' = State'

\* C10: the Encoder is constructed by the first init (direct or through
\* startCapture) and by nothing else; once it exists it is never constructed
\* again and never cleared, also after it has been stopped; a second init
\* leaves the state as the first left it.
C10_EncoderOnce ==
    /\ [](encoderId <= 1)
    /\ [][C10_Step]_vars

\* C10 witness: init has run on a coordinator whose Encoder had been stopped, and constructed nothing
C10_Witness ==
    /\ op.name = "init"
    /\ encoderId = 1
    /\ encoderStopped
    /\ ~HasCall(calls, "new Encoder")

\* C11 as stated (I1): in every reachable state the Encoder exists iff init
\* has been called at least once, and so does the Uploader.
C11_Original ==
    /\ (encoderId # 0) <=> initCalled
    /\ uploaderExists <=> initCalled

\* C11 amended: in every reachable state the Encoder exists iff init has been
\* called at least once (directly or inside startCapture); the Uploader exists
\* in every reachable state, from construction on, also before the first init.
C11_Amended ==
    /\ (encoderId # 0) <=> initCalled
    /\ uploaderExists

\* C11 witness: init has run and constructed the Encoder
C11_Witness ==
    /\ op.name = "init"
    /\ initCalled
    /\ encoderId = 1
    /\ HasCall(calls, "new Encoder")
    /\ uploaderExists

C12_Step ==
    (Cardinality(recording) = 1 /\ recording' = {}) =>
        /\ op'.name \in {"stopRecordInputChannel", "recordInputChannel", "stopCapture",
                         "onFailure", "onPermissionsRemoved"}
        /\ encoderStopped'
        /\ uploaderStopped'
        /\ CountCall(calls', "encoder.stopEncoder") = 1
        /\ CountCall(calls', "uploader.stopUploader") = 1

\* C12 (I2): whenever an operation takes the number of recording-active
\* channels from 1 to 0, that operation sends stopEncoder and stopUploader and
\* leaves the Encoder and the Uploader stopped.
C12_LastStop == [][C12_Step]_vars

\* C12 witness: the rollback of a failed recordInputChannel(i) on the only
\* recording channel has cleared its flag and stopped the Encoder and the Uploader
C12_Witness ==
    /\ RecordFailed
    /\ HasCall(calls, "audio.recordChannel")
    /\ everRecorded
    /\ recording = {}
    /\ StopSignals(calls) = 2
    /\ encoderStopped
    /\ uploaderStopped

C13_Step ==
    /\ \A i \in Channels :
          (buffers[i] = "none" /\ buffers'[i] # "none") =>
              /\ op'.name = "startCapture.channels"
              /\ op'.ret > i
              /\ encoderId # 0
              /\ CountCall(calls', "bufferManager.setBuffer") >= 1
    /\ HasCall(calls', "bufferManager.setBuffer") =>
          /\ op'.name = "startCapture.channels"
          /\ op'.ret >= 1
          /\ encoderId # 0
          /\ \A k \in DOMAIN calls' :
                calls'[k][1] = "bufferManager.setBuffer" =>
                    /\ calls'[k][2] < op'.ret
                    /\ buffers[calls'[k][2]] = "none"

\* C13 (I3): a buffer for channel i comes into existence only in the step of
\* startCapture that follows a channel negotiation with a count above i, and
\* only when an Encoder already exists; no other operation issues setBuffer.
C13_LazyBuffers ==
    /\ [](Existing # {} => encoderId # 0)
    /\ [][C13_Step]_vars

\* C13 witness: a startCapture that negotiated 2 channels has created the buffers 0 and 1 and no other
C13_Witness ==
    /\ StartCaptureReturned
    /\ op.ret = 2
    /\ Existing = {0, 1}
    /\ CountCall(calls, "bufferManager.setBuffer") = 2

C14_Step ==
    /\ op'.name \in {"stopCapture", "onPermissionsRemoved"} =>
          /\ pending' = pending
          /\ InFlight > 0 => interrupted'
    /\ (op'.name = "startCapture.stream" /\ op'.ret = -1) =>
          /\ pending["requestDeviceAccess"] > 0
          /\ pending' = [pending EXCEPT !["requestDeviceAccess"] = @ - 1,
                                        !["handleInputStream"] = @ + 1]
          /\ interrupted' = interrupted
    /\ (op'.name = "startCapture.channels" /\ op'.ret >= 1) =>
          /\ \A i \in 0 .. (op'.ret - 1) : buffers'[i] # "none"
          /\ encoderChannels' = op'.ret
          /\ uploaderChannels' = op'.ret
          /\ HasCall(calls', "encoder.setChannels")
          /\ HasCall(calls', "uploader.setChannels")
          /\ interrupted' = interrupted

\* C14: a stopCapture (or the permission-removed callback) that runs while
\* startCapture calls are suspended at requestDeviceAccess or handleInputStream
\* leaves every call suspended where it is; when the negotiation then resolves
\* with a count >= 1 the buffers are created and the Encoder and the Uploader
\* reconfigured as in an undisturbed call.
C14_NoCancel == [][C14_Step]_vars

\* C14 witness: startCapture has returned a count >= 1 and created buffers
\* after a stopCapture that ran while it was suspended (nothing but suspended
\* startCapture calls resuming has happened since that stopCapture)
C14_Witness ==
    /\ StartCaptureReturned
    /\ interrupted
    /\ HasCall(calls, "bufferManager.setBuffer")
    /\ encoderChannels = op.ret
    /\ uploaderChannels = op.ret
    /\ ~audioRunning
    /\ deviceState = "stopped"

C15_Step ==
    /\ StopSignals(calls') > 0 =>
          /\ recording' = {}
          /\ op'.name \in {"stopRecordInputChannel", "recordInputChannel", "onFailure"}
          /\ calls'[Len(calls')][1] \in {"uploader.stopUploader", "context.onWarning"}
    /\ (~encoderStopped /\ encoderStopped') => recording' = {}
    /\ (~uploaderStopped /\ uploaderStopped') => recording' = {}
    /\ (op'.name \in {"stopRecordInputChannel", "recordInputChannel"}
            /\ recording' \ {op'.input} # {}) =>
          /\ StopSignals(calls') = 0
          /\ encoderStopped' = encoderStopped
          /\ uploaderStopped' = uploaderStopped

\* C15: every stopEncoder and stopUploader call is issued by
\* stopRecordInputChannel, by the rollback of recordInputChannel or by
\* onFailure, in a state where the active-recording count is 0; an operation
\* on one channel sends no stop signal while another channel is recording.
C15_NeverEager == [][C15_Step]_vars

\* C15 witness: onFailure found no channel recording, after channels had been recorded, and stopped both handles
C15_Witness ==
    /\ op.name = "onFailure"
    /\ everRecorded
    /\ recording = {}
    /\ StopSignals(calls) = 2
    /\ encoderStopped
    /\ uploaderStopped

C16_Step ==
    LET created == {k \in DOMAIN calls' : calls'[k][1] = "bufferManager.setBuffer"}
    IN  /\ \A i \in Channels : buffers[i] # "none" => buffers'[i] # "none"
        /\ \A k \in created :
              /\ buffers[calls'[k][2]] = "none"
              /\ \A j \in created : calls'[j][2] = calls'[k][2] => j = k

\* C16: setBuffer is never called for an index that already has a buffer, at
\* most once per index in one operation, and an index that has a buffer keeps
\* one through every operation.
C16_CreatedOnce == [][C16_Step]_vars

\* C16 witness: a startCapture that grew the channel count to 3 has created
\* the buffer of index 2 only, the buffers 0 and 1 being those of an earlier call
C16_Witness ==
    /\ StartCaptureReturned
    /\ op.ret = 3
    /\ CountCall(calls, "bufferManager.setBuffer") = 1
    /\ HasCall(calls, "bufferManager.setBuffer")
    /\ calls[1] = <<"bufferManager.setBuffer", 2>>
    /\ Existing = {0, 1, 2}

\* C17: in the step of startCapture that returns a count C >= 1, the calls
\* are the setBuffer calls of the new indexes, then encoder.setChannels(C),
\* then uploader.setChannels(C); the two setChannels calls are issued also
\* when no buffer is created.
C17_ConfigAfterBuffers ==
    StartCaptureReturned =>
        LET n == Len(calls)
        IN  /\ n >= 2
            /\ calls[n - 1] = <<"encoder.setChannels", op.ret>>
            /\ calls[n] = <<"uploader.setChannels", op.ret>>
            /\ \A k \in 1 .. (n - 2) : calls[k][1] = "bufferManager.setBuffer"
            /\ CountCall(calls, "encoder.setChannels") = 1
            /\ CountCall(calls, "uploader.setChannels") = 1

\* C17 witness: a startCapture returned with some buffers kept from an
\* earlier call and some created before the reconfiguration
C17_Witness ==
    /\ StartCaptureReturned
    /\ CountCall(calls, "bufferManager.setBuffer") >= 1
    /\ CountCall(calls, "bufferManager.setBuffer") < op.ret
    /\ calls[Len(calls)] = <<"uploader.setChannels", op.ret>>

C18_Step ==
    op'.name = "onFailure" =>
        /\ deviceState' = deviceState
        /\ ~HasCall(calls', "device.stop")
        /\ FirstCall(calls', "context.onFailure") = 1
        /\ FirstCall(calls', "audio.stopAll") = 2
        /\ FirstCall(calls', "bufferManager.stopAll") = 3
        /\ \A k \in DOMAIN calls' : k > 3 =>
              calls'[k][1] \in {"encoder.stopEncoder", "uploader.stopUploader"}
        /\ ~audioRunning'
        /\ \A i \in Channels : buffers'[i] # "ready"

\* C18: onFailure, in every state, calls context.onFailure first, then
\* audio.stopAll, then bufferManager.stopAll, then at most the two stop
\* signals; it never calls device.stop and leaves the device state unchanged.
C18_DeviceUntouched == [][C18_Step]_vars

\* C18 witness: onFailure has run on a capturing session and the device still reports noError
C18_Witness ==
    /\ op.name = "onFailure"
    /\ deviceState = "noError"
    /\ Existing # {}
    /\ ~audioRunning

\* Calls on the Encoder or the Uploader other than the stop signals
HandleCalls(log) ==
    {k \in DOMAIN log : log[k][1] \in {"new Encoder", "encoder.setChannels", "uploader.setChannels"}}

C19_Step ==
    /\ op'.name = "recordInputChannel" =>
          /\ HandleCalls(calls') = {}
          /\ op'.input \in recording' =>
                /\ StopSignals(calls') = 0
                /\ encoderStopped' = encoderStopped
                /\ uploaderStopped' = uploaderStopped
    /\ encoderStopped => encoderStopped'
    /\ uploaderStopped => uploaderStopped'
    /\ (HasCall(calls', "encoder.setChannels") \/ HasCall(calls', "uploader.setChannels")) =>
          op'.name = "startCapture.channels"

\* C19: a recordInputChannel that succeeds issues no call on the Encoder or
\* the Uploader and leaves their stopped state as it was; once stopped they
\* stay stopped; setChannels is issued only by the last step of startCapture.
\* So a channel can be recording-active while both are stopped (the witness).
C19_NoRestart == [][C19_Step]_vars

\* C19 witness: recordInputChannel(i) has succeeded after the Encoder and the
\* Uploader were stopped: i is recording-active and both are still stopped
C19_Witness ==
    /\ op.name = "recordInputChannel"
    /\ op.input \in recording
    /\ buffers[op.input] = "ready"
    /\ encoderId # 0
    /\ encoderStopped
    /\ uploaderStopped

C20_Step ==
    op'.name = "onPermissionsRemoved" =>
        /\ calls' = << <<"audio.stopAll">>, <<"bufferManager.stopAll">>, <<"device.stop">>,
                       <<"context.onDevicePermissionRemoved">> >>
        /\ ~audioRunning'
        /\ \A i \in Channels : buffers'[i] # "ready"
        /\ deviceState' = "stopped"
        /\ encoderId' = encoderId
        /\ encoderStopped' = encoderStopped
        /\ uploaderStopped' = uploaderStopped

\* C20: the permission-removed callback issues audio.stopAll,
\* bufferManager.stopAll and device.stop, in this order, before it calls
\* context.onDevicePermissionRemoved, and sends no stop signal: the Encoder
\* and the Uploader are left as they were, also when channels were recording.
C20_PermissionLoss == [][C20_Step]_vars

\* C20 witness: the callback has run while a channel was recording and the handles were not stopped
C20_Witness ==
    /\ op.name = "onPermissionsRemoved"
    /\ recording # {}
    /\ encoderId # 0
    /\ ~encoderStopped
    /\ ~uploaderStopped
    /\ deviceState = "stopped"

====
